---- MODULE Spec2Model ----
(***************************************************************************)
(* A model of stac-tile-map (src/python/stac_tiler_map/create_map.py):     *)
(* the feature source reader (read_geojson), the date-range formatter      *)
(* (get_search_dates), the scene finder (get_items), the scene ranker      *)
(* (sort_items) and create_stac_tiler_map, from its retry loop to the map  *)
(* it composes; with them the HTTP application (src/python/api/main.py)    *)
(* and the legacy scene finder (_get_scene of src/create_map.py).          *)
(*                                                                         *)
(* Text is modelled as a sequence of one-character strings, so that the    *)
(* layout of a formatted date can be inspected character by character.     *)
(* A date is its proleptic Gregorian ordinal (0001-01-01 is day 1), as in  *)
(* Python's datetime; a datetime carries a second-of-day besides.          *)
(***************************************************************************)
EXTENDS Integers, Sequences, FiniteSets, TLC

VARIABLES
    \* get_search_dates called on its own
    sd_pc, sd_end_date, sd_period, sd_result,
    \* get_items: its parameters, locals, and the catalog stub's call log
    gi_pc, gi_stac_client, gi_collection, gi_end_date0, gi_end_date, gi_search_period,
    gi_intersects, gi_query, gi_query0, gi_search_loops, gi_iter,
    item_collection,
    gi_result, gi_error, searches, catalog_calls,
    \* create_stac_tiler_map: the request around get_items
    map_pc, map_inputs, map_feature_collection, map_feature,
    map_item_collection, map_rounds, map_exhausted, map_error, map_clock,
    map_heap, map_read, map_items, map_m, map_updated_feature,
    \* read_geojson
    rg_pc, rg_path, rg_response, rg_obj, rg_result, rg_error, http_calls,
    file_opens, parse_calls,
    \* sort_items
    si_pc, si_items, si_sort_on, si_ascending, si_result, si_error,
    \* the HTTP application: one request and its answer
    api_pc, api_request, api_endpoint, api_calls, api_response,
    \* the legacy _get_scene
    gs_pc, gs_collection, gs_end_date, gs_search_period, gs_intersects,
    gs_heap, gs_query, gs_scene_item, gs_error, gs_searches

sd_vars == <<sd_pc, sd_end_date, sd_period, sd_result>>
gi_vars == <<gi_pc, gi_stac_client, gi_collection, gi_end_date0, gi_end_date, gi_search_period,
             gi_intersects, gi_query, gi_query0, gi_search_loops, gi_iter,
    item_collection,
             gi_result, gi_error, searches, catalog_calls>>
map_vars == <<map_pc, map_inputs, map_feature_collection, map_feature,
              map_item_collection, map_rounds, map_exhausted, map_error,
              map_clock, map_heap, map_read, map_items, map_m,
              map_updated_feature>>
rg_vars == <<rg_pc, rg_path, rg_response, rg_obj, rg_result, rg_error,
             http_calls, file_opens, parse_calls>>
si_vars == <<si_pc, si_items, si_sort_on, si_ascending, si_result, si_error>>
api_vars == <<api_pc, api_request, api_endpoint, api_calls, api_response>>
gs_vars == <<gs_pc, gs_collection, gs_end_date, gs_search_period, gs_intersects,
             gs_heap, gs_query, gs_scene_item, gs_error, gs_searches>>
vars == <<sd_vars, gi_vars, map_vars, rg_vars, si_vars, api_vars, gs_vars>>

\* Python's None.
None == [none |-> TRUE]

\* A pystac.ItemCollection holding the scenes `items`, in order.
ItemCollection(items) == [items |-> items]

\* Python truthiness of an optional ItemCollection: None is falsy, and so
\* is a collection of length 0.
Truthy(x) == x # None /\ x # ItemCollection(<<>>)

(***************************************************************************)
(* Dates and their formatting                                              *)
(***************************************************************************)

\* ---- bounds of the date domain ----
\* first end date of the get_search_dates check: 2023-01-01
FirstDay == 738521
\* number of consecutive end dates after FirstDay (reaches 2024-03-05,
\* across 2023-12-31/2024-01-01 and the leap day 2024-02-29)
DaySpan == 429
\* longest period of the get_search_dates check
MaxDatePeriod == 31

Date(n) == [kind |-> "date", ordinal |-> n]
DateTime(n, s) == [kind |-> "datetime", ordinal |-> n, second |-> s]

\* end_date - timedelta(days=period): the time of day is kept.
MinusDays(d, period) == [d EXCEPT !.ordinal = @ - period]

DaysInMonth == <<31, 28, 31, 30, 31, 30, 31, 31, 30, 31, 30, 31>>

\* days of the year before the first of month m, in a leap year or not
RECURSIVE DaysBeforeMonth(_, _)
DaysBeforeMonth(leap, m) ==
    IF m = 1 THEN 0
    ELSE DaysBeforeMonth(leap, m - 1) + DaysInMonth[m - 1]
         + (IF m - 1 = 2 /\ leap THEN 1 ELSE 0)

\* ordinal -> <<year, month, day>>, the way datetime computes it: whole
\* 400-, 100-, 4- and 1-year cycles, then the month by estimate and fix-up.
Ord2ymd(ord) ==
    LET n0   == ord - 1
        n400 == n0 \div 146097
        r400 == n0 % 146097
        n100 == r400 \div 36524
        r100 == r400 % 36524
        n4   == r100 \div 1461
        r4   == r100 % 1461
        n1   == r4 \div 365
        n    == r4 % 365
        year == n400 * 400 + n100 * 100 + n4 * 4 + n1 + 1
    IN  IF n1 = 4 \/ n100 = 4 THEN <<year - 1, 12, 31>>
        ELSE LET leap  == n1 = 3 /\ (n4 # 24 \/ n100 = 3)
                 est   == (n + 50) \div 32
                 prec  == DaysBeforeMonth(leap, est)
                 month == IF prec > n THEN est - 1 ELSE est
                 before == DaysBeforeMonth(leap, month)
             IN  <<year, month, n - before + 1>>

Digits == <<"0", "1", "2", "3", "4", "5", "6", "7", "8", "9">>

RECURSIVE Pow10(_)
Pow10(k) == IF k = 0 THEN 1 ELSE 10 * Pow10(k - 1)

\* n in decimal with no fill: the digits alone.
ZeroPadNoFill(n, width) ==
    LET RECURSIVE Dec(_)
        Dec(k) == IF k < 10 THEN <<Digits[k + 1]>>
                  ELSE Dec(k \div 10) \o <<Digits[(k % 10) + 1]>>
    IN  Dec(n)

\* n as exactly `width` decimal digits, zero-filled on the left.
ZeroPad(n, width) ==
    [i \in 1..width |-> Digits[((n \div Pow10(width - i)) % 10) + 1]]

\* DATE_FMT = "%Y-%m-%d", as its directives and literal characters.
DATE_FMT == <<"%Y", "-", "%m", "-", "%d">>

\* One directive of strftime: %Y is the 4-digit year, %m and %d the
\* 2-digit month and day; any other element stands for itself. The time of
\* day of a datetime takes no part in these directives.
Directive(d, item) ==
    LET ymd == Ord2ymd(d.ordinal)
    IN  CASE item = "%Y" -> ZeroPad(ymd[1], 4)
          [] item = "%m" -> ZeroPad(ymd[2], 2)
          [] item = "%d" -> ZeroPad(ymd[3], 2)
          [] OTHER -> <<item>>

RECURSIVE Strftime(_, _)
Strftime(d, fmt) ==
    IF fmt = <<>> THEN <<>>
    ELSE Directive(d, Head(fmt)) \o Strftime(d, Tail(fmt))

\* get_search_dates(end_date, period): "<start>/<end>", start = end - period.
get_search_dates(end_date, period) ==
    LET start_date == MinusDays(end_date, period)
    IN  Strftime(start_date, DATE_FMT) \o <<"/">> \o Strftime(end_date, DATE_FMT)

\* ---- reading a date: dateutil's parser.parse(text).date() ----
IsDigit(c) == \E i \in 1..10 : Digits[i] = c
DigitValue(c) == (CHOOSE i \in 1..10 : Digits[i] = c) - 1

RECURSIVE ParseNat(_)
ParseNat(chars) ==
    IF chars = <<>> THEN 0
    ELSE 10 * ParseNat(SubSeq(chars, 1, Len(chars) - 1))
         + DigitValue(chars[Len(chars)])

IsLeap(y) == y % 4 = 0 /\ (y % 100 # 0 \/ y % 400 = 0)

\* days before January 1st of year y
DaysBeforeYear(y) ==
    LET p == y - 1 IN p * 365 + (p \div 4) - (p \div 100) + (p \div 400)

Ymd2ord(y, m, d) == DaysBeforeYear(y) + DaysBeforeMonth(IsLeap(y), m) + d

\* parser.parse(text).date() of a timestamp that starts YYYY-MM-DD
ParseDate(text) ==
    Date(Ymd2ord(ParseNat(SubSeq(text, 1, 4)), ParseNat(SubSeq(text, 6, 7)),
                 ParseNat(SubSeq(text, 9, 10))))

(***************************************************************************)
(* get_search_dates called on its own, on every end date of the domain     *)
(***************************************************************************)

\* second of the day carried by the datetime end dates (12:00:00)
Noon == 43200

SdEndDates ==
    {Date(n) : n \in FirstDay..(FirstDay + DaySpan)}
    \cup {DateTime(n, Noon) : n \in FirstDay..(FirstDay + DaySpan)}

SdInit ==
    /\ sd_pc = "call"
    /\ sd_end_date \in SdEndDates
    /\ sd_period \in 1..MaxDatePeriod
    /\ sd_result = None

SdIdle ==
    /\ sd_pc = "idle"
    /\ sd_end_date = None
    /\ sd_period = 0
    /\ sd_result = None

GetSearchDates ==
    /\ sd_pc = "call"
    /\ sd_result' = get_search_dates(sd_end_date, sd_period)
    /\ sd_pc' = "returned"
    /\ UNCHANGED <<sd_end_date, sd_period>>

(***************************************************************************)
(* The catalog and get_items                                               *)
(***************************************************************************)

\* ---- bounds of the get_items check ----
\* search_loops is drawn from 0..MaxLoops and the default
MaxLoops == 3
\* search_period is drawn from 1..MaxSearchPeriod and the default
MaxSearchPeriod == 2

\* search_loops: int = 12
DefaultSearchLoops == 12
\* Inputs.search_period, default=30
DefaultSearchPeriod == 30

CLOUD == "eo:cloud_cover"
NODATA == "s2:nodata_pixel_percentage"

\* Inputs.query's default and get_items' default query={}
DefaultQuery ==
    (NODATA :> [gte |-> 0, lte |-> 10]) @@ (CLOUD :> [gte |-> 0, lte |-> 10])
EmptyQuery == <<>>
Queries == {EmptyQuery, DefaultQuery}

Collections == {"sentinel-2-l2a"}

PointGeometry == [type |-> "Point", coordinates |-> <<-105, 39>>]
PolygonGeometry ==
    [type |-> "Polygon",
     coordinates |-> << <<-109, 37>>, <<-102, 37>>, <<-102, 41>>, <<-109, 37>> >>]
Geometries == {PointGeometry, PolygonGeometry}

\* A scene: a pystac.Item reduced to its id and its properties.
\* A pystac.Item: id, properties, assets (key -> asset with its href) and
\* links (self_href is the href of the link whose rel is "self").
Item(id, props, assets, links) ==
    [id |-> id, properties |-> props, assets |-> assets, links |-> links]
\* An item built as the tests build theirs: no assets, no links.
Scene(id, props) == Item(id, props, <<>>, <<>>)
item_1 == Scene("item_1", (CLOUD :> 50) @@ (NODATA :> 0))
item_2 == Scene("item_2", (CLOUD :> 0) @@ (NODATA :> 0))
\* An item as the catalog service publishes it: with a datetime property
\* (2024-02-29T10:00:00Z), a "visual" asset and a self link.
item_3 ==
    Item("item_3",
         (CLOUD :> 5) @@ (NODATA :> 0) @@
         ("datetime" :> <<"2", "0", "2", "4", "-", "0", "2", "-", "2", "9", "T",
                          "1", "0", ":", "0", "0", ":", "0", "0", "Z">>),
         "visual" :> [href |-> "https://example.com/item_3/visual.tif"],
         <<[rel |-> "self", href |-> "https://example.com/items/item_3"]>>)

\* The stac_client handed to get_items: the catalog service, whose
\* search.item_collection() is an ItemCollection even when it is empty, or
\* a stub whose answer for "nothing" is None (as in test_get_items).
StacClients == {"service", "stub"}
NoScenes(stac_client) ==
    IF stac_client = "stub" THEN None ELSE ItemCollection(<<>>)

\* What one catalog search can come back with: a failure of the service,
\* nothing, or one or more scenes.
SearchError == [raised |-> "APIError"]
ScenesFound ==
    {ItemCollection(<<item_1>>), ItemCollection(<<item_1, item_2>>),
     ItemCollection(<<item_2>>), ItemCollection(<<item_3>>),
     ItemCollection(<<item_1, item_3>>)}
CatalogOutcomes(stac_client) ==
    {SearchError, NoScenes(stac_client)} \cup ScenesFound

\* end dates of the get_items check: the date 2023-01-31 and the datetime
\* 2024-03-01 12:00:00
GiEndDates == {Date(FirstDay + 30), DateTime(FirstDay + 425, Noon)}

\* range(search_loops) with one iteration too many.
RangeHasNextInclusive(iter, search_loops) == iter <= search_loops

\* for _ in range(search_loops): is there another iteration after `iter`?
RangeHasNext(iter, search_loops) == iter < search_loops

\* the step back taken as a single day.
PriorPeriodOneDay(end_date, search_period) == MinusDays(end_date, 1)

\* end_date = end_date - timedelta(days=search_period)
PriorPeriod(end_date, search_period) == MinusDays(end_date, search_period)

\* a failed search taken for an empty one
AfterSearchSwallow(outcome) ==
    IF outcome = SearchError THEN "loop"
    ELSE IF Truthy(outcome) THEN "break" ELSE "loop"

\* scenes found, and the loop going on to the end of its range
AfterSearchNoBreak(outcome) ==
    IF outcome = SearchError THEN "raised" ELSE "loop"

\* Where control goes after one search: an exception leaves get_items,
\* `if item_collection: break` leaves the loop, otherwise the loop goes on.
AfterSearch(outcome) ==
    IF outcome = SearchError THEN "raised"
    ELSE IF Truthy(outcome) THEN "break" ELSE "loop"

\* the search sent with a copy of the query whose cloud cover criterion is
\* loosened by 5 for every search made before
SearchCallLoosened(date_range, outcome) ==
    [collections |-> <<gi_collection>>,
     datetime    |-> date_range,
     intersects  |-> gi_intersects,
     query       |-> IF CLOUD \in DOMAIN gi_query
                     THEN [gi_query EXCEPT ![CLOUD].lte = @ + 5 * Len(searches)]
                     ELSE gi_query,
     returned    |-> outcome]

\* The arguments of stac_client.search(...) and what came back.
SearchCall(date_range, outcome) ==
    [collections |-> <<gi_collection>>,
     datetime    |-> date_range,
     intersects  |-> gi_intersects,
     query       |-> gi_query,
     returned    |-> outcome]

\* The state of get_items on entry, after `item_collection = None`.
GetItemsEntered(stac_client, collection, end_date, search_period, intersects, query, search_loops) ==
    /\ gi_pc' = "loop"
    /\ gi_stac_client' = stac_client
    /\ gi_collection' = collection
    /\ gi_end_date0' = end_date
    /\ gi_end_date' = end_date
    /\ gi_search_period' = search_period
    /\ gi_intersects' = intersects
    /\ gi_query' = query
    /\ gi_query0' = query
    /\ gi_search_loops' = search_loops
    /\ gi_iter' = 0
    /\ item_collection' = None
    /\ gi_result' = None
    /\ gi_error' = None
    /\ searches' = <<>>

GiInit ==
    /\ gi_pc = "loop"
    /\ gi_stac_client \in StacClients
    /\ gi_collection \in Collections
    /\ gi_end_date0 \in GiEndDates
    /\ gi_end_date = gi_end_date0
    /\ gi_search_period \in (1..MaxSearchPeriod) \cup {DefaultSearchPeriod}
    /\ gi_intersects \in Geometries
    /\ gi_query \in Queries
    /\ gi_query0 = gi_query
    /\ gi_search_loops \in (0..MaxLoops) \cup {DefaultSearchLoops}
    /\ gi_iter = 0
    /\ item_collection = None
    /\ gi_result = None
    /\ gi_error = None
    /\ searches = <<>>
    /\ catalog_calls = 0

GiIdle ==
    /\ gi_pc = "idle"
    /\ gi_stac_client = "service"
    /\ gi_collection = None
    /\ gi_end_date0 = None
    /\ gi_end_date = None
    /\ gi_search_period = 0
    /\ gi_intersects = None
    /\ gi_query = None
    /\ gi_query0 = None
    /\ gi_search_loops = 0
    /\ gi_iter = 0
    /\ item_collection = None
    /\ gi_result = None
    /\ gi_error = None
    /\ searches = <<>>
    /\ catalog_calls = 0

\* One iteration of the loop of get_items: the date range, the search, and
\* what follows from its outcome.
GetItemsSearch ==
    /\ gi_pc = "loop"
    /\ RangeHasNext(gi_iter, gi_search_loops)
    /\ \E outcome \in CatalogOutcomes(gi_stac_client) :
         LET date_range == get_search_dates(gi_end_date, gi_search_period)
             next_pc == AfterSearch(outcome)
         IN  /\ searches' = Append(searches, SearchCall(date_range, outcome))
             /\ catalog_calls' = catalog_calls + 1
             /\ gi_iter' = gi_iter + 1
             /\ gi_pc' = next_pc
             /\ item_collection' =
                    IF outcome = SearchError THEN item_collection ELSE outcome
             /\ gi_error' =
                    IF next_pc = "raised" THEN outcome.raised ELSE gi_error
             /\ gi_end_date' =
                    IF next_pc = "loop"
                    THEN PriorPeriod(gi_end_date, gi_search_period)
                    ELSE gi_end_date
    /\ UNCHANGED <<gi_stac_client, gi_collection, gi_end_date0,
                   gi_search_period, gi_intersects, gi_query, gi_query0,
                   gi_search_loops,
                   gi_result>>

\* After the loop (left by break or by the end of the range):
\* return item_collection.
GetItemsReturn ==
    /\ \/ gi_pc = "break"
       \/ gi_pc = "loop" /\ ~RangeHasNext(gi_iter, gi_search_loops)
    /\ gi_result' = item_collection
    /\ gi_pc' = "returned"
    /\ UNCHANGED <<gi_stac_client, gi_collection, gi_end_date0, gi_end_date,
                   gi_search_period, gi_intersects, gi_query, gi_query0,
                   gi_search_loops,
                   gi_iter,
                   item_collection, gi_error, searches, catalog_calls>>

(***************************************************************************)
(* GeoJSON objects                                                         *)
(***************************************************************************)

Feature(geometry, properties) ==
    [type |-> "Feature", geometry |-> geometry, properties |-> properties]
FeatureCollection(features) ==
    [type |-> "FeatureCollection", features |-> features]

feature_1 == Feature(PointGeometry, "Name" :> "Rocky Mountain")
feature_2 == Feature(PolygonGeometry, "Name" :> "Mesa Verde")
\* a feature without properties: geojson gives it the empty mapping
feature_3 == Feature(PointGeometry, <<>>)

\* A mapping object (a Python dict) is a cell of the heap, and a feature
\* holds the reference of its property mapping: two features holding the
\* same reference share one mapping.
Ref(a) == [ref |-> a]
\* The property mappings of the features of fc, one cell each, in order.
PropertyDicts(fc) == [i \in 1..Len(fc.features) |-> fc.features[i].properties]
\* fc as an object: its i-th feature refers to cell i.
Loaded(fc) ==
    FeatureCollection([i \in 1..Len(fc.features) |->
                          Feature(fc.features[i].geometry, Ref(i))])

(***************************************************************************)
(* create_stac_tiler_map: from the request to the map it returns           *)
(***************************************************************************)

\* ---- bound of the request ----
\* the request's `while not item_collection` loop is followed for at most
\* MaxRounds calls of get_items
MaxRounds == 2

\* The fields of Inputs the request reads.
MapInputs ==
    [collection    : Collections,
     asset_key     : {"visual", "nonexistent"},
     search_period : (1..MaxSearchPeriod) \cup {DefaultSearchPeriod},
     query         : Queries,
     sort_on       : {<<>>, <<NODATA, CLOUD>>}]

\* What read_geojson can hand to the request.
MapFeatureCollections ==
    {FeatureCollection(<<>>), FeatureCollection(<<feature_1>>),
     FeatureCollection(<<feature_1, feature_2>>),
     FeatureCollection(<<feature_3>>)}

\* The readings datetime.utcnow() can give during the request.
ClockReadings == {DateTime(FirstDay + 425, Noon), DateTime(FirstDay + 426, 0)}

MapInit ==
    /\ map_pc = "start"
    /\ map_inputs \in MapInputs
    /\ map_feature_collection = None
    /\ map_feature = None
    /\ map_item_collection = None
    /\ map_rounds = 0
    /\ map_exhausted = 0
    /\ map_error = None
    /\ map_clock \in ClockReadings
    /\ map_heap = <<>>
    /\ map_read = None
    /\ map_items = <<>>
    /\ map_m = None
    /\ map_updated_feature = None

\* Client.open, read_geojson, the first feature, item_collection = None.
\* Either call can fail, and a collection without features has no first one.
MapOpenAndRead ==
    /\ map_pc = "start"
    /\ \/ /\ \E e \in {"APIError", "RetrievalError"} : map_error' = e
          /\ map_pc' = "raised"
          /\ UNCHANGED <<map_feature_collection, map_feature, map_heap,
                         map_read>>
       \/ \E fc \in MapFeatureCollections :
            /\ map_feature_collection' = Loaded(fc)
            /\ map_heap' = PropertyDicts(fc)
            /\ map_read' = fc
            /\ IF fc.features = <<>>
               THEN /\ map_error' = "IndexError"
                    /\ map_pc' = "raised"
                    /\ map_feature' = map_feature
               ELSE /\ map_feature' = Loaded(fc).features[1]
                    /\ map_pc' = "while"
                    /\ map_error' = map_error
    /\ map_item_collection' = None
    /\ UNCHANGED <<map_inputs, map_rounds, map_exhausted, map_clock,
                   map_items, map_m, map_updated_feature>>

\* while not item_collection: no scenes yet, so the loop body runs.
WhileNotItemCollection(ic) == ~Truthy(ic)

\* geojson.Feature(**choice): a new feature with the geometry of choice and
\* with `properties or {}`, which is the very mapping of choice unless that
\* mapping is empty, and a new empty mapping if it is.
KeepsProperties(heap, choice) == DOMAIN heap[choice.properties.ref] # {}
GeoJSONFeature(heap, choice) ==
    Feature(choice.geometry,
            IF KeepsProperties(heap, choice) THEN choice.properties
            ELSE Ref(Len(heap) + 1))

\* The loop body up to the call: a feature picked at random, and
\* get_items called for it with end_date = utcnow() and the default
\* search_loops.
MapCallGetItems ==
    /\ map_pc = "while"
    /\ WhileNotItemCollection(map_item_collection)
    /\ map_rounds < MaxRounds
    /\ \E i \in 1..Len(map_feature_collection.features) :
       \E t \in {r \in ClockReadings : r.ordinal >= map_clock.ordinal} :
         LET choice == map_feature_collection.features[i]
             feature == GeoJSONFeature(map_heap, choice)
         IN  /\ map_feature' = feature
             /\ map_heap' = IF KeepsProperties(map_heap, choice) THEN map_heap
                            ELSE Append(map_heap, <<>>)
             /\ map_clock' = t
             /\ GetItemsEntered("service", map_inputs.collection, t,
                                map_inputs.search_period, feature.geometry,
                                map_inputs.query, DefaultSearchLoops)
    /\ map_pc' = "get_items"
    /\ map_rounds' = map_rounds + 1
    /\ UNCHANGED <<map_inputs, map_feature_collection, map_item_collection,
                   map_exhausted, map_error, catalog_calls, map_read,
                   map_items, map_m, map_updated_feature>>

\* get_items returned: its result is the request's item_collection, and the
\* while condition is evaluated again.
MapGetItemsReturned ==
    /\ map_pc = "get_items"
    /\ gi_pc = "returned"
    /\ map_item_collection' = gi_result
    /\ IF WhileNotItemCollection(gi_result)
       THEN /\ map_pc' = "while"
            /\ map_exhausted' = map_exhausted + 1
       ELSE /\ map_pc' = "found"
            /\ map_exhausted' = map_exhausted
    /\ gi_pc' = "idle"
    /\ UNCHANGED <<map_inputs, map_feature_collection, map_feature, map_rounds,
                   map_error, map_clock, map_heap, map_read, map_items, map_m,
                   map_updated_feature>>
    /\ UNCHANGED <<gi_stac_client, gi_collection, gi_end_date0, gi_end_date,
                   gi_search_period, gi_intersects, gi_query, gi_query0,
                   gi_search_loops,
                   gi_iter, item_collection, gi_result, gi_error, searches,
                   catalog_calls>>

\* get_items was left by an error: nothing catches it in the request.
MapGetItemsRaised ==
    /\ map_pc = "get_items"
    /\ gi_pc = "raised"
    /\ map_error' = gi_error
    /\ map_pc' = "raised"
    /\ gi_pc' = "idle"
    /\ UNCHANGED <<map_inputs, map_feature_collection, map_feature,
                   map_item_collection, map_rounds, map_exhausted, map_clock,
                   map_heap, map_read, map_items, map_m, map_updated_feature>>
    /\ UNCHANGED <<gi_stac_client, gi_collection, gi_end_date0, gi_end_date,
                   gi_search_period, gi_intersects, gi_query, gi_query0,
                   gi_search_loops,
                   gi_iter, item_collection, gi_result, gi_error, searches,
                   catalog_calls>>

(***************************************************************************)
(* read_geojson                                                            *)
(***************************************************************************)

\* str.startswith(prefix)
StartsWith(str, prefix) ==
    Len(str) >= Len(prefix) /\ SubSeq(str, 1, Len(prefix)) = prefix

HTTP == <<"h", "t", "t", "p">>
WWW == <<"w", "w", "w">>
HTTP_SCHEME == <<"h", "t", "t", "p", ":", "/", "/">>
HTTPS_SCHEME == <<"h", "t", "t", "p", "s", ":", "/", "/">>

\* The inputs: http://x.io/a, https://x.io/a, www.x.io/a, and the relative
\* file paths d/a, www/a and httpd/a.
Paths ==
    {HTTP_SCHEME \o <<"x", ".", "i", "o", "/", "a">>,
     HTTPS_SCHEME \o <<"x", ".", "i", "o", "/", "a">>,
     <<"w", "w", "w", ".", "x", ".", "i", "o", "/", "a">>,
     <<"d", "/", "a">>,
     <<"w", "w", "w", "/", "a">>,
     <<"h", "t", "t", "p", "d", "/", "a">>}

\* An HTTP(S) URL: the scheme http or https, then "://".
IsHttpUrl(path) == StartsWith(path, HTTP_SCHEME) \/ StartsWith(path, HTTPS_SCHEME)

\* path.startswith(("http", "www"))
IsRemote(path) == StartsWith(path, HTTP) \/ StartsWith(path, WWW)

\* JSON documents a source can hold: bare geometries, a feature, feature
\* collections, an object of an unknown type and one with no type.
LineStringGeometry ==
    [type |-> "LineString", coordinates |-> << <<-105, 39>>, <<-104, 40>> >>]
Documents ==
    {PointGeometry, LineStringGeometry, PolygonGeometry, feature_1,
     FeatureCollection(<<>>), FeatureCollection(<<feature_1>>),
     FeatureCollection(<<feature_1, feature_2>>),
     FeatureCollection(<<feature_2, feature_1>>),
     [type |-> "Scene", id |-> "item_1"],
     "Name" :> "Rocky Mountain"}

\* The text of a source: a JSON document, or something that is not JSON.
JsonText(doc) == [json |-> doc]
Malformed == [garbage |-> "<html>"]
Texts == {JsonText(doc) : doc \in Documents} \cup {Malformed}

\* The classes geojson's object hook knows by their "type".
GeoJSONTypes ==
    {"Point", "MultiPoint", "LineString", "MultiLineString", "Polygon",
     "MultiPolygon", "GeometryCollection", "Feature", "FeatureCollection"}

\* geojson.loads / geojson.load on well-formed JSON: an object whose "type"
\* names a GeoJSON class becomes an instance of that class, any other
\* object stays a plain dict.
Loads(text) ==
    LET doc == text.json
    IN  IF "type" \in DOMAIN doc /\ doc.type \in GeoJSONTypes
        THEN [class |-> doc.type, value |-> doc]
        ELSE [class |-> "dict", value |-> doc]

\* every object wrapped, a collection too.
NormalizeAlways(geojson_obj) ==
    [class |-> "FeatureCollection",
     value |-> FeatureCollection(<<geojson_obj.value>>)]

\* if not isinstance(geojson_obj, FeatureCollection):
\*     geojson_obj = FeatureCollection(features=[geojson_obj])
Normalize(geojson_obj) ==
    IF geojson_obj.class # "FeatureCollection"
    THEN [class |-> "FeatureCollection",
          value |-> FeatureCollection(<<geojson_obj.value>>)]
    ELSE geojson_obj

\* Statuses a response can carry.
HttpStatuses == {200, 206, 300, 304, 399, 400, 404, 499, 500, 503, 599}
Responses == [status_code : HttpStatuses, text : Texts]

\* raise_for_status that knows server errors only.
RaisesForStatusServerOnly(status_code) == status_code >= 500 /\ status_code < 600

\* resp.raise_for_status(): HTTPError for 4xx and 5xx.
RaisesForStatus(status_code) == status_code >= 400 /\ status_code < 600

RgInit ==
    /\ rg_pc = "call"
    /\ rg_path \in Paths
    /\ rg_response = None
    /\ rg_obj = None
    /\ rg_result = None
    /\ rg_error = None
    /\ http_calls = <<>>
    /\ file_opens = <<>>
    /\ parse_calls = 0

\* The rest of read_geojson once the text is at hand: parse, normalise,
\* return; text that is not JSON ends the call with the parser's error.
ParseAndReturn(text) ==
    /\ parse_calls' = parse_calls + 1
    /\ IF text = Malformed
       THEN /\ rg_pc' = "raised"
            /\ rg_error' = "JSONDecodeError"
            /\ UNCHANGED <<rg_obj, rg_result>>
       ELSE /\ rg_obj' = Loads(text)
            /\ rg_result' = Normalize(Loads(text))
            /\ rg_pc' = "returned"
            /\ UNCHANGED rg_error

RaisedBeforeParse(error) ==
    /\ rg_pc' = "raised"
    /\ rg_error' = error
    /\ UNCHANGED <<rg_obj, rg_result, parse_calls>>

\* read_geojson on the remote branch: requests.get(url=path), which
\* refuses a string without a scheme, fails to connect, or brings a
\* response; raise_for_status; then the body is parsed.
ReadRemote ==
    /\ rg_pc = "call"
    /\ IsRemote(rg_path)
    /\ http_calls' = Append(http_calls, rg_path)
    /\ IF ~IsHttpUrl(rg_path)
       THEN /\ RaisedBeforeParse("MissingSchema")
            /\ UNCHANGED rg_response
       ELSE \/ /\ RaisedBeforeParse("ConnectionError")
               /\ UNCHANGED rg_response
            \/ \E resp \in Responses :
                 /\ rg_response' = resp
                 /\ IF RaisesForStatus(resp.status_code)
                    THEN RaisedBeforeParse("HTTPError")
                    ELSE ParseAndReturn(resp.text)
    /\ UNCHANGED <<rg_path, file_opens>>

\* read_geojson on the local branch: open(path, "r"), which fails when
\* there is no such file, then the file is parsed.
ReadLocal ==
    /\ rg_pc = "call"
    /\ ~IsRemote(rg_path)
    /\ file_opens' = Append(file_opens, rg_path)
    /\ \/ RaisedBeforeParse("FileNotFoundError")
       \/ \E text \in Texts : ParseAndReturn(text)
    /\ UNCHANGED <<rg_path, rg_response, http_calls>>

(***************************************************************************)
(* sort_items                                                              *)
(***************************************************************************)

\* ---- bound of the sort_items check ----
\* longest item collection sorted
MaxItems == 3

\* The property mappings of the scenes sorted: cloud cover and no-data
\* percentage each 0 or 50, or a scene lacking one property or both.
SortValues == {0, 50}
PropertyMaps ==
    {(CLOUD :> c) @@ (NODATA :> n) : c \in SortValues, n \in SortValues}
    \cup {CLOUD :> 0, <<>>}

\* The item collections sorted: up to MaxItems scenes, the k-th with id k.
SortCollections ==
    UNION {{ItemCollection([k \in 1..n |-> Scene(k, props[k])]) :
               props \in [1..n -> PropertyMaps]} : n \in 0..MaxItems}

SortOns == {<<>>, <<CLOUD>>, <<NODATA, CLOUD>>, <<CLOUD, NODATA>>}

\* key=lambda item: [item.properties[property] for property in sort_on]
HasProperties(item, sort_on) ==
    \A k \in 1..Len(sort_on) : sort_on[k] \in DOMAIN item.properties
SortKey(item, sort_on) ==
    [k \in 1..Len(sort_on) |-> item.properties[sort_on[k]]]

\* Python's `<` on two lists: decided by the first position where they
\* differ, a proper prefix being smaller.
RECURSIVE ListLess(_, _)
ListLess(a, b) ==
    IF b = <<>> THEN FALSE
    ELSE IF a = <<>> THEN TRUE
    ELSE IF Head(a) # Head(b) THEN Head(a) < Head(b)
    ELSE ListLess(Tail(a), Tail(b))

\* x goes before e in the order asked for
Precedes(x, e, sort_on, reverse) ==
    IF reverse
    THEN ListLess(SortKey(e, sort_on), SortKey(x, sort_on))
    ELSE ListLess(SortKey(x, sort_on), SortKey(e, sort_on))

\* x put into the sorted list `done`, behind every element it does not
\* strictly precede
RECURSIVE Insert(_, _, _, _)
Insert(x, done, sort_on, reverse) ==
    IF done = <<>> THEN <<x>>
    ELSE IF Precedes(x, Head(done), sort_on, reverse)
         THEN <<x>> \o done
         ELSE <<Head(done)>> \o Insert(x, Tail(done), sort_on, reverse)

RECURSIVE StableSort(_, _, _)
StableSort(items, sort_on, reverse) ==
    IF items = <<>> THEN <<>>
    ELSE Insert(items[Len(items)],
                StableSort(SubSeq(items, 1, Len(items) - 1), sort_on, reverse),
                sort_on, reverse)

Reversed(seq) == [i \in 1..Len(seq) |-> seq[Len(seq) + 1 - i]]

\* descending order got by sorting ascending and reversing the outcome,
\* which turns the order of equal items around too.
SortedReversedAfter(items, sort_on, reverse) ==
    IF reverse
    THEN Reversed(StableSort(items, sort_on, FALSE))
    ELSE StableSort(items, sort_on, FALSE)

\* sorted(items, key=..., reverse=reverse): a stable sort in both
\* directions.
Sorted(items, sort_on, reverse) == StableSort(items, sort_on, reverse)

SiInit ==
    /\ si_pc = "call"
    /\ si_items \in SortCollections
    /\ si_sort_on \in SortOns
    /\ si_ascending \in BOOLEAN
    /\ si_result = None
    /\ si_error = None

\* keys looked at only where two items are compared, so that a single item
\* is never asked for its key.
KeysTakenWhenCompared(items, sort_on) ==
    Len(items) <= 1 \/ \A i \in 1..Len(items) : HasProperties(items[i], sort_on)

\* sorted() calls the key function on every item, however many there are,
\* before it compares any: that succeeds when every item has every property.
KeysTaken(items, sort_on) ==
    \A i \in 1..Len(items) : HasProperties(items[i], sort_on)

\* sort_items: the keys are taken from every item first, which fails on an
\* item without one of the properties; then the items are sorted.
SortItems ==
    /\ si_pc = "call"
    /\ IF KeysTaken(si_items.items, si_sort_on)
       THEN /\ si_result' = Sorted(si_items.items, si_sort_on, ~si_ascending)
            /\ si_pc' = "returned"
            /\ si_error' = si_error
       ELSE /\ si_error' = "KeyError"
            /\ si_pc' = "raised"
            /\ si_result' = si_result
    /\ UNCHANGED <<si_items, si_sort_on, si_ascending>>

(***************************************************************************)
(* create_stac_tiler_map: the map composed from the scenes found           *)
(* (the map's centre and its rendering are left out: a map is the          *)
(* sequence of its layers)                                                 *)
(***************************************************************************)

\* an exception leaving a function
Raised(e) == [raised |-> e]
HasRaised(r) == "raised" \in DOMAIN r

DefaultTilerUrl == "https://api.cogeo.xyz/cog/tiles/{z}/{x}/{y}"
TileLayer(tiles) ==
    [tiles |-> tiles, name |-> "COG", overlay |-> TRUE, attr |-> "IndigoAg"]

\* a layer made whatever the assets are: a URL without a reference when the
\* asset is missing
create_tile_layer_lenient(item, asset_key, tiler_url) ==
    TileLayer(tiler_url \o "?url=" \o
              (IF asset_key \in DOMAIN item.assets
               THEN item.assets[asset_key].href ELSE ""))

\* _create_tile_layer_from_item: f"{tiler_url}?url={item.assets[asset_key].href}"
\* item.assets[asset_key] raises KeyError when the key is absent, before any
\* layer is made.
create_tile_layer_from_item(item, asset_key, tiler_url) ==
    IF asset_key \in DOMAIN item.assets
    THEN TileLayer(tiler_url \o "?url=" \o item.assets[asset_key].href)
    ELSE Raised("KeyError")

\* item.self_href as str.format writes it: the href of the self link, and
\* "None" when the item has none
HasSelfLink(item) == \E k \in 1..Len(item.links) : item.links[k].rel = "self"
SelfHrefText(item) ==
    IF HasSelfLink(item)
    THEN item.links[CHOOSE k \in 1..Len(item.links) :
                       item.links[k].rel = "self"].href
    ELSE "None"

\* link_str.format(href=..., label=...)
LinkStr(href, label) ==
    "<a target='_blank' href=" \o href \o ">" \o label \o "</a>"

\* The update_dict of _add_stac_info_to_feature, or the KeyError of the
\* asset or of the datetime property it looks up first.
update_dict(item, asset_key) ==
    IF asset_key \notin DOMAIN item.assets
          \/ "datetime" \notin DOMAIN item.properties
    THEN Raised("KeyError")
    ELSE ("Date" :> Strftime(ParseDate(item.properties["datetime"]), DATE_FMT))
         @@ ("STAC Item" :> LinkStr(SelfHrefText(item), item.id))
         @@ ("Download" :> LinkStr(item.assets[asset_key].href, "click here"))

\* dict.update: the keys of other are set in the mapping, the rest is kept
DictUpdate(mapping, other) == other @@ mapping

\* feature.copy(): dict.copy is shallow, the copy holds the same values, and
\* so the same reference to the property mapping
ShallowCopy(feature) == [k \in DOMAIN feature |-> feature[k]]

\* _create_geojson_layer: the popup lists the keys of the properties of
\* the first feature
GeoJsonLayer(heap, geojson, name) ==
    [data |-> geojson, name |-> name,
     popup |-> DOMAIN heap[geojson.features[1].properties.ref]]

\* items = list(item_collection), sorted on inputs.sort_on if that is not
\* empty; the map is created around the first item. (map_items is <<>>
\* until then: the scenes found are never an empty list.)
MapSelectItem ==
    /\ map_pc = "found"
    /\ LET listed == map_item_collection.items
           sort_on == map_inputs.sort_on
       IN  IF sort_on # <<>> /\ ~KeysTaken(listed, sort_on)
           THEN /\ map_error' = "KeyError"
                /\ map_pc' = "raised"
                /\ UNCHANGED <<map_items, map_m>>
           ELSE /\ map_items' = IF sort_on # <<>>
                                THEN Sorted(listed, sort_on, FALSE)
                                ELSE listed
                /\ map_m' = [layers |-> <<>>]
                /\ map_pc' = "tile"
                /\ map_error' = map_error
    /\ UNCHANGED <<map_inputs, map_feature_collection, map_feature,
                   map_item_collection, map_rounds, map_exhausted, map_clock,
                   map_heap, map_read, map_updated_feature>>

\* tile_layer = _create_tile_layer_from_item(item, inputs.asset_key), with
\* the default tiler_url, added to the map.
MapAddTileLayer ==
    /\ map_pc = "tile"
    /\ LET tile_layer == create_tile_layer_from_item(
                             map_items[1], map_inputs.asset_key, DefaultTilerUrl)
       IN  IF HasRaised(tile_layer)
           THEN /\ map_error' = tile_layer.raised
                /\ map_pc' = "raised"
                /\ map_m' = map_m
           ELSE /\ map_m' = [layers |-> Append(map_m.layers, tile_layer)]
                /\ map_pc' = "enrich"
                /\ map_error' = map_error
    /\ UNCHANGED <<map_inputs, map_feature_collection, map_feature,
                   map_item_collection, map_rounds, map_exhausted, map_clock,
                   map_heap, map_read, map_items, map_updated_feature>>

\* updated_feature = _add_stac_info_to_feature(feature.copy(), item,
\* inputs.asset_key): feature["properties"].update(update_dict) writes into
\* the mapping the copy refers to.
MapAddStacInfo ==
    /\ map_pc = "enrich"
    /\ LET feature == ShallowCopy(map_feature)
           update == update_dict(map_items[1], map_inputs.asset_key)
       IN  IF HasRaised(update)
           THEN /\ map_error' = update.raised
                /\ map_pc' = "raised"
                /\ UNCHANGED <<map_heap, map_updated_feature>>
           ELSE /\ map_heap' =
                      [map_heap EXCEPT ![feature.properties.ref] =
                                           DictUpdate(@, update)]
                /\ map_updated_feature' = feature
                /\ map_pc' = "layers"
                /\ map_error' = map_error
    /\ UNCHANGED <<map_inputs, map_feature_collection, map_feature,
                   map_item_collection, map_rounds, map_exhausted, map_clock,
                   map_read, map_items, map_m>>

\* The marker layer of the updated feature and the layer control are
\* added, and the map is returned.
MapAddLayersAndReturn ==
    /\ map_pc = "layers"
    /\ map_m' = [layers |->
                    map_m.layers \o
                    <<GeoJsonLayer(map_heap,
                                   [features |-> <<map_updated_feature>>],
                                   "Marker"),
                      [name |-> "LayerControl"]>>]
    /\ map_pc' = "returned"
    /\ UNCHANGED <<map_inputs, map_feature_collection, map_feature,
                   map_item_collection, map_rounds, map_exhausted, map_error,
                   map_clock, map_heap, map_read, map_items,
                   map_updated_feature>>

(***************************************************************************)
(* The HTTP application built by app_factory (src/python/api/main.py)      *)
(***************************************************************************)

\* MapInputs(): every field at its default from settings
DefaultMapInputs ==
    [geojson_file  |-> "data/national-parks.geojson",
     catalog       |-> "https://earth-search.aws.element84.com/v1",
     collection    |-> "sentinel-2-l2a",
     asset_key     |-> "visual",
     name_key      |-> "Name",
     search_period |-> DefaultSearchPeriod]

\* The routes of the application, in the order they are registered: those
\* FastAPI() adds for its documentation, then the two of app_factory. A
\* route registered for GET also answers HEAD.
AppRoutes ==
    <<[path |-> "/openapi.json", methods |-> {"GET", "HEAD"}, endpoint |-> "openapi"],
      [path |-> "/docs", methods |-> {"GET", "HEAD"}, endpoint |-> "swagger_ui_html"],
      [path |-> "/redoc", methods |-> {"GET", "HEAD"}, endpoint |-> "redoc_html"],
      [path |-> "/root", methods |-> {"GET", "HEAD"}, endpoint |-> "root"],
      [path |-> "/custom", methods |-> {"GET", "HEAD"},
       endpoint |-> "create_custom_map"]>>

\* The requests sent to the application. A body is a JSON object giving
\* some of the fields of MapInputs, or is absent.
Methods == {"GET", "HEAD", "POST", "PUT", "DELETE"}
RequestPaths == {"/map", "/root", "/custom", "/", "/docs"}
Bodies ==
    {[present |-> FALSE, fields |-> <<>>],
     [present |-> TRUE, fields |-> <<>>],
     [present |-> TRUE, fields |-> "asset_key" :> "B04"],
     [present |-> TRUE, fields |-> "collection" :> "landsat-c2-l2"]}
Requests == [method : Methods, path : RequestPaths, body : Bodies]

Response(status, media_type, content) ==
    [status |-> status, media_type |-> media_type, content |-> content]

\* The router: the first route whose path and method both match; failing
\* that 405 when a path matched, 404 when none did.
FullMatches(request) ==
    {k \in 1..Len(AppRoutes) : /\ AppRoutes[k].path = request.path
                               /\ request.method \in AppRoutes[k].methods}
PathMatches(request) ==
    {k \in 1..Len(AppRoutes) : AppRoutes[k].path = request.path}
First(S) == CHOOSE k \in S : \A j \in S : k <= j

\* def create_stac_tiler_map(inputs: Inputs): the call binds when every
\* keyword is a parameter and every parameter is given.
MapParameters == {"inputs"}
Binds(kwargs) == DOMAIN kwargs \subseteq MapParameters /\ MapParameters \subseteq DOMAIN kwargs

\* create_stac_tiler_map(**kwargs) followed by
\* HTMLResponse(m.get_root().render()): the rendered document with status
\* 200 when a map comes back; an exception of the call is not caught, and
\* the server answers 500.
MapResponses(kwargs) ==
    IF Binds(kwargs)
    THEN {Response(200, "text/html", "rendered map"),
          Response(500, "text/plain", "Internal Server Error")}
    ELSE {Response(500, "text/plain", "Internal Server Error")}

ApiInit ==
    /\ api_pc = "received"
    /\ api_request \in Requests
    /\ api_endpoint = ""
    /\ api_calls = <<>>
    /\ api_response = None

\* The request is routed.
ApiRoute ==
    /\ api_pc = "received"
    /\ IF FullMatches(api_request) # {}
       THEN /\ api_endpoint' = AppRoutes[First(FullMatches(api_request))].endpoint
            /\ api_pc' = "endpoint"
            /\ api_response' = api_response
       ELSE /\ api_response' =
                  IF PathMatches(api_request) # {}
                  THEN Response(405, "application/json", "Method Not Allowed")
                  ELSE Response(404, "application/json", "Not Found")
            /\ api_pc' = "answered"
            /\ api_endpoint' = api_endpoint
    /\ UNCHANGED <<api_request, api_calls>>

\* The endpoint runs: root() with MapInputs(), create_custom_map(inputs)
\* with the MapInputs read from the body (422 without a body), and the
\* documentation pages of the framework.
ApiEndpoint ==
    /\ api_pc = "endpoint"
    /\ IF api_endpoint \in {"root", "create_custom_map"}
       THEN IF api_endpoint = "create_custom_map" /\ ~api_request.body.present
            THEN /\ api_response' =
                       Response(422, "application/json", "field required")
                 /\ api_calls' = api_calls
            ELSE LET inputs == IF api_endpoint = "root" THEN DefaultMapInputs
                               ELSE api_request.body.fields @@ DefaultMapInputs
                     kwargs == inputs
                 IN  /\ api_calls' = Append(api_calls, kwargs)
                     /\ api_response' \in MapResponses(kwargs)
       ELSE /\ api_response' =
                  Response(200,
                           IF api_endpoint = "openapi" THEN "application/json"
                           ELSE "text/html",
                           api_endpoint)
            /\ api_calls' = api_calls
    /\ api_pc' = "answered"
    /\ UNCHANGED <<api_request, api_endpoint>>

(***************************************************************************)
(* The legacy scene finder: _get_scene of src/create_map.py                *)
(***************************************************************************)

\* ---- bound of the legacy loop ----
\* `while not scene_item` has no bound of its own: it is followed for at
\* most MaxSceneSearches searches
MaxSceneSearches == 4

query_keys == <<NODATA, CLOUD>>

\* _get_search_dates of the legacy module: the same layout as
\* get_search_dates
legacy_get_search_dates(end_date, period) ==
    Strftime(MinusDays(end_date, period), DATE_FMT) \o <<"/">> \o
    Strftime(end_date, DATE_FMT)

\* The query as the catalog receives it: each key with the content of the
\* mapping it refers to.
Deref(heap, query) == [k \in DOMAIN query |-> heap[query[k].ref]]

\* What a search of the legacy loop can answer.
SceneOutcomes == {SearchError, ItemCollection(<<>>)} \cup ScenesFound

GsEndDates == {DateTime(FirstDay + 30, 0), DateTime(FirstDay + 425, Noon)}

GsInit ==
    /\ gs_pc = "call"
    /\ gs_collection \in Collections
    /\ gs_end_date \in GsEndDates
    /\ gs_search_period \in 1..MaxSearchPeriod
    /\ gs_intersects \in Geometries
    /\ gs_heap = <<>>
    /\ gs_query = <<>>
    /\ gs_scene_item = None
    /\ gs_error = None
    /\ gs_searches = <<>>

\* query_criteria = {"gte": 0, "lte": 10} is one mapping, and
\* query = {query_key: query_criteria for query_key in query_keys} makes
\* every key refer to it.
GetSceneEntered ==
    /\ gs_pc = "call"
    /\ gs_heap' = <<[gte |-> 0, lte |-> 10]>>
    /\ gs_query' = [k \in {query_keys[i] : i \in 1..Len(query_keys)} |-> Ref(1)]
    /\ gs_scene_item' = None
    /\ gs_pc' = "while"
    /\ UNCHANGED <<gs_collection, gs_end_date, gs_search_period, gs_intersects,
                   gs_error, gs_searches>>

\* One pass of the loop: the search; with scenes, the first of them sorted
\* on query_keys is returned; without, the cloud cover criterion is
\* loosened through query["eo:cloud_cover"] and the prior period is next.
GetSceneSearch ==
    /\ gs_pc = "while"
    /\ gs_scene_item = None
    /\ Len(gs_searches) < MaxSceneSearches
    /\ \E outcome \in SceneOutcomes :
         /\ gs_searches' =
               Append(gs_searches,
                      [collections |-> <<gs_collection>>,
                       datetime |-> legacy_get_search_dates(gs_end_date,
                                                            gs_search_period),
                       intersects |-> gs_intersects,
                       query |-> Deref(gs_heap, gs_query),
                       returned |-> outcome])
         /\ IF outcome = SearchError
            THEN /\ gs_error' = "APIError"
                 /\ gs_pc' = "raised"
                 /\ UNCHANGED <<gs_heap, gs_end_date, gs_scene_item>>
            ELSE IF Truthy(outcome)
            THEN /\ gs_scene_item' = Sorted(outcome.items, query_keys, FALSE)[1]
                 /\ gs_pc' = "returned"
                 /\ UNCHANGED <<gs_heap, gs_end_date, gs_error>>
            ELSE /\ gs_heap' = [gs_heap EXCEPT ![gs_query[CLOUD].ref].lte = @ + 5]
                 /\ gs_end_date' = MinusDays(gs_end_date, gs_search_period)
                 /\ UNCHANGED <<gs_pc, gs_scene_item, gs_error>>
    /\ UNCHANGED <<gs_collection, gs_search_period, gs_intersects, gs_query>>

(***************************************************************************)
(* Components at rest                                                      *)
(***************************************************************************)

MapIdle ==
    /\ map_pc = "idle"
    /\ map_inputs = None
    /\ map_feature_collection = None
    /\ map_feature = None
    /\ map_item_collection = None
    /\ map_rounds = 0
    /\ map_exhausted = 0
    /\ map_error = None
    /\ map_clock = None
    /\ map_heap = <<>>
    /\ map_read = None
    /\ map_items = <<>>
    /\ map_m = None
    /\ map_updated_feature = None

RgIdle ==
    /\ rg_pc = "idle"
    /\ rg_path = <<>>
    /\ rg_response = None
    /\ rg_obj = None
    /\ rg_result = None
    /\ rg_error = None
    /\ http_calls = <<>>
    /\ file_opens = <<>>
    /\ parse_calls = 0

SiIdle ==
    /\ si_pc = "idle"
    /\ si_items = None
    /\ si_sort_on = <<>>
    /\ si_ascending = TRUE
    /\ si_result = None
    /\ si_error = None

ApiIdle ==
    /\ api_pc = "idle"
    /\ api_request = None
    /\ api_endpoint = ""
    /\ api_calls = <<>>
    /\ api_response = None

GsIdle ==
    /\ gs_pc = "idle"
    /\ gs_collection = ""
    /\ gs_end_date = None
    /\ gs_search_period = 0
    /\ gs_intersects = None
    /\ gs_heap = <<>>
    /\ gs_query = <<>>
    /\ gs_scene_item = None
    /\ gs_error = None
    /\ gs_searches = <<>>

(***************************************************************************)
(* Specifications                                                          *)
(***************************************************************************)

\* get_search_dates applied to every end date and period of the domain
InitDates ==
    SdInit /\ GiIdle /\ MapIdle /\ RgIdle /\ SiIdle /\ ApiIdle /\ GsIdle
NextDates ==
    GetSearchDates
       /\ UNCHANGED <<gi_vars, map_vars, rg_vars, si_vars, api_vars, gs_vars>>
SpecDates == InitDates /\ [][NextDates]_vars

\* one call of get_items against a catalog that answers as it likes
InitItems ==
    GiInit /\ SdIdle /\ MapIdle /\ RgIdle /\ SiIdle /\ ApiIdle /\ GsIdle
NextItems ==
    \/ GetItemsSearch /\
          UNCHANGED <<sd_vars, map_vars, rg_vars, si_vars, api_vars, gs_vars>>
    \/ GetItemsReturn /\
          UNCHANGED <<sd_vars, map_vars, rg_vars, si_vars, api_vars, gs_vars>>
SpecItems == InitItems /\ [][NextItems]_vars

\* one map-generation request, from its inputs to the map returned
InitMap ==
    MapInit /\ GiIdle /\ SdIdle /\ RgIdle /\ SiIdle /\ ApiIdle /\ GsIdle
NextMap ==
    \/ MapOpenAndRead /\
          UNCHANGED <<sd_vars, gi_vars, rg_vars, si_vars, api_vars, gs_vars>>
    \/ MapCallGetItems /\
          UNCHANGED <<sd_vars, rg_vars, si_vars, api_vars, gs_vars>>
    \/ GetItemsSearch /\
          UNCHANGED <<sd_vars, map_vars, rg_vars, si_vars, api_vars, gs_vars>>
    \/ GetItemsReturn /\
          UNCHANGED <<sd_vars, map_vars, rg_vars, si_vars, api_vars, gs_vars>>
    \/ MapGetItemsReturned /\
          UNCHANGED <<sd_vars, rg_vars, si_vars, api_vars, gs_vars>>
    \/ MapGetItemsRaised /\
          UNCHANGED <<sd_vars, rg_vars, si_vars, api_vars, gs_vars>>
    \/ MapSelectItem /\
          UNCHANGED <<sd_vars, gi_vars, rg_vars, si_vars, api_vars, gs_vars>>
    \/ MapAddTileLayer /\
          UNCHANGED <<sd_vars, gi_vars, rg_vars, si_vars, api_vars, gs_vars>>
    \/ MapAddStacInfo /\
          UNCHANGED <<sd_vars, gi_vars, rg_vars, si_vars, api_vars, gs_vars>>
    \/ MapAddLayersAndReturn /\
          UNCHANGED <<sd_vars, gi_vars, rg_vars, si_vars, api_vars, gs_vars>>
SpecMap == InitMap /\ [][NextMap]_vars

\* one call of read_geojson, on any of the paths, in any environment
InitRead ==
    RgInit /\ SdIdle /\ GiIdle /\ MapIdle /\ SiIdle /\ ApiIdle /\ GsIdle
NextRead ==
    \/ ReadRemote /\
          UNCHANGED <<sd_vars, gi_vars, map_vars, si_vars, api_vars, gs_vars>>
    \/ ReadLocal /\
          UNCHANGED <<sd_vars, gi_vars, map_vars, si_vars, api_vars, gs_vars>>
SpecRead == InitRead /\ [][NextRead]_vars

\* one call of sort_items, on any collection, keys and direction
InitSort ==
    SiInit /\ SdIdle /\ GiIdle /\ MapIdle /\ RgIdle /\ ApiIdle /\ GsIdle
NextSort ==
    SortItems
       /\ UNCHANGED <<sd_vars, gi_vars, map_vars, rg_vars, api_vars, gs_vars>>
SpecSort == InitSort /\ [][NextSort]_vars

\* one request sent to the application of app_factory
InitApi ==
    ApiInit /\ SdIdle /\ GiIdle /\ MapIdle /\ RgIdle /\ SiIdle /\ GsIdle
NextApi ==
    \/ ApiRoute /\
          UNCHANGED <<sd_vars, gi_vars, map_vars, rg_vars, si_vars, gs_vars>>
    \/ ApiEndpoint /\
          UNCHANGED <<sd_vars, gi_vars, map_vars, rg_vars, si_vars, gs_vars>>
SpecApi == InitApi /\ [][NextApi]_vars

\* one call of the legacy _get_scene
InitScene ==
    GsInit /\ SdIdle /\ GiIdle /\ MapIdle /\ RgIdle /\ SiIdle /\ ApiIdle
NextScene ==
    \/ GetSceneEntered /\
          UNCHANGED <<sd_vars, gi_vars, map_vars, rg_vars, si_vars, api_vars>>
    \/ GetSceneSearch /\
          UNCHANGED <<sd_vars, gi_vars, map_vars, rg_vars, si_vars, api_vars>>
SpecScene == InitScene /\ [][NextScene]_vars

(***************************************************************************)
(* Reading a formatted date range back (used by the properties below; not  *)
(* part of the program)                                                    *)
(***************************************************************************)

\* chars is YYYY-MM-DD: ten characters, digits but for the two hyphens,
\* naming a month 01..12 and a day of that month
IsIsoDate(chars) ==
    /\ Len(chars) = 10
    /\ chars[5] = "-" /\ chars[8] = "-"
    /\ \A i \in {1, 2, 3, 4, 6, 7, 9, 10} : IsDigit(chars[i])
    /\ LET y == ParseNat(SubSeq(chars, 1, 4))
           m == ParseNat(SubSeq(chars, 6, 7))
           d == ParseNat(SubSeq(chars, 9, 10))
       IN  /\ y >= 1
           /\ m \in 1..12
           /\ d >= 1
           /\ d <= DaysInMonth[m] + (IF m = 2 /\ IsLeap(y) THEN 1 ELSE 0)

IsoOrdinal(chars) ==
    Ymd2ord(ParseNat(SubSeq(chars, 1, 4)), ParseNat(SubSeq(chars, 6, 7)),
            ParseNat(SubSeq(chars, 9, 10)))

\* s is "<start>/<end>" with both dates YYYY-MM-DD
IsDateRange(s) ==
    /\ Len(s) = 21
    /\ s[11] = "/"
    /\ IsIsoDate(SubSeq(s, 1, 10))
    /\ IsIsoDate(SubSeq(s, 12, 21))

RangeStart(s) == IsoOrdinal(SubSeq(s, 1, 10))
RangeEnd(s) == IsoOrdinal(SubSeq(s, 12, 21))

(***************************************************************************)
(* Properties of get_items                                                 *)
(***************************************************************************)

IsEmptyAnswer(r) == r = None \/ r = ItemCollection(<<>>)
HasScenes(r) == r \in ScenesFound
AllSearchesEmpty == \A k \in 1..Len(searches) : IsEmptyAnswer(searches[k].returned)

\* C1: against a catalog that answers every search with nothing, get_items
\* never issues more than search_loops searches, cannot issue another one
\* once search_loops have been issued (it can only return), and returns
\* after exactly search_loops searches with a result that holds no scene
\* (None, or the empty collection of the last search).
C1_EmptyCatalogTerminates ==
    /\ Len(searches) <= gi_search_loops
    /\ (gi_pc = "loop" /\ Len(searches) = gi_search_loops)
          => (~ENABLED GetItemsSearch /\ ENABLED GetItemsReturn)
    /\ (gi_pc = "returned" /\ AllSearchesEmpty)
          => /\ Len(searches) = gi_search_loops
             /\ IsEmptyAnswer(gi_result)
             /\ gi_error = None

C1_Witness ==
    /\ gi_pc = "returned"
    /\ gi_search_loops = DefaultSearchLoops
    /\ AllSearchesEmpty
    /\ Len(searches) = DefaultSearchLoops
    /\ gi_result = ItemCollection(<<>>)

\* C2: the first search that returns one or more scenes is the last search
\* get_items issues, and get_items returns exactly the item collection
\* that search returned.
C2_StopsAtFirstScenes ==
    /\ \A k \in 1..Len(searches) :
          HasScenes(searches[k].returned) => k = Len(searches)
    /\ \A k \in 1..Len(searches) :
          (gi_pc = "returned" /\ HasScenes(searches[k].returned))
             => gi_result = searches[k].returned

C2_Witness ==
    /\ gi_pc = "returned"
    /\ gi_search_loops = DefaultSearchLoops
    /\ Len(searches) = 3
    /\ IsEmptyAnswer(searches[1].returned)
    /\ IsEmptyAnswer(searches[2].returned)
    /\ searches[3].returned = ItemCollection(<<item_1, item_2>>)
    /\ gi_result = ItemCollection(<<item_1, item_2>>)

\* C3: the k-th search is issued for the date range
\* [end_date - k*period, end_date - (k-1)*period]; each window ends where
\* the previous one started, strictly earlier than the previous end.
C3_WindowsStepBack ==
    \A k \in 1..Len(searches) :
        LET s == searches[k].datetime
        IN  /\ IsDateRange(s)
            /\ RangeStart(s) = gi_end_date0.ordinal - k * gi_search_period
            /\ RangeEnd(s) = gi_end_date0.ordinal - (k - 1) * gi_search_period
            /\ k > 1 =>
                  /\ RangeEnd(s) = RangeStart(searches[k - 1].datetime)
                  /\ RangeEnd(s) < RangeEnd(searches[k - 1].datetime)

\* from 2024-03-01 in steps of 30 days, the third window
C3_Witness ==
    /\ gi_end_date0 = DateTime(FirstDay + 425, Noon)
    /\ gi_search_period = DefaultSearchPeriod
    /\ Len(searches) = 3
    /\ searches[1].datetime =
          <<"2", "0", "2", "4", "-", "0", "1", "-", "3", "1", "/",
            "2", "0", "2", "4", "-", "0", "3", "-", "0", "1">>
    /\ searches[3].datetime =
          <<"2", "0", "2", "3", "-", "1", "2", "-", "0", "2", "/",
            "2", "0", "2", "4", "-", "0", "1", "-", "0", "1">>

\* C5: a search that fails is the last search of the call; get_items is
\* left by that error, and has returned nothing.
C5_SearchErrorPropagates ==
    \A k \in 1..Len(searches) :
        searches[k].returned = SearchError
           => /\ k = Len(searches)
              /\ gi_pc = "raised"
              /\ gi_error = "APIError"
              /\ gi_result = None

C5_Witness ==
    /\ gi_pc = "raised"
    /\ Len(searches) = 3
    /\ searches[3].returned = SearchError
    /\ gi_error = "APIError"

(***************************************************************************)
(* Properties of get_search_dates                                          *)
(***************************************************************************)

\* C4: get_search_dates(end_date, period) is the zero-padded YYYY-MM-DD of
\* end_date - period days, "/", and the zero-padded YYYY-MM-DD of end_date;
\* the start date is not later than the end date.
C4_SearchDatesFormat ==
    sd_pc = "returned" =>
        /\ IsDateRange(sd_result)
        /\ RangeStart(sd_result) = sd_end_date.ordinal - sd_period
        /\ RangeEnd(sd_result) = sd_end_date.ordinal
        /\ RangeStart(sd_result) <= RangeEnd(sd_result)

\* the example of the specification: 2023-01-31, 30 days
C4_Witness ==
    /\ sd_pc = "returned"
    /\ sd_end_date = Date(FirstDay + 30)
    /\ sd_period = 30
    /\ sd_result =
          <<"2", "0", "2", "3", "-", "0", "1", "-", "0", "1", "/",
            "2", "0", "2", "3", "-", "0", "1", "-", "3", "1">>

(***************************************************************************)
(* Properties of create_stac_tiler_map                                     *)
(***************************************************************************)

\* C6: once get_items has come back to the request with its budget
\* exhausted and no scenes, the request issues no further catalog search.
C6_NoSearchAfterExhaustion ==
    [][map_exhausted >= 1 => catalog_calls' = catalog_calls]_vars

(***************************************************************************)
(* Properties of read_geojson                                              *)
(***************************************************************************)

\* C7: what read_geojson returns is a FeatureCollection: the parsed
\* document itself when that is a FeatureCollection (same features, same
\* order), otherwise a FeatureCollection whose features are exactly that
\* one parsed object.
C7_AlwaysFeatureCollection ==
    rg_pc = "returned" =>
        /\ rg_result.class = "FeatureCollection"
        /\ rg_result.value.type = "FeatureCollection"
        /\ IF rg_obj.class = "FeatureCollection"
           THEN /\ rg_result = rg_obj
                /\ rg_result.value.features = rg_obj.value.features
           ELSE rg_result.value.features = <<rg_obj.value>>

C7_Witness ==
    /\ rg_pc = "returned"
    /\ rg_obj.value = PolygonGeometry
    /\ rg_result.value = FeatureCollection(<<PolygonGeometry>>)

\* C8: when read_geojson is over, the HTTP client was called if and only
\* if the input is an HTTP(S) URL, and every other input was opened as a
\* local file, with no call of the HTTP client.
C8_HttpIffUrl ==
    rg_pc \in {"returned", "raised"} =>
        /\ (http_calls # <<>>) <=> IsHttpUrl(rg_path)
        /\ ~IsHttpUrl(rg_path) => (file_opens = <<rg_path>> /\ http_calls = <<>>)

\* C9 as stated: a response whose status is not 2xx ends read_geojson with
\* the retrieval error, the body unparsed and nothing returned.
C9_Non2xxRaises ==
    (rg_response # None /\ rg_response.status_code \notin 200..299) =>
        /\ rg_pc = "raised"
        /\ rg_error = "HTTPError"
        /\ parse_calls = 0
        /\ rg_result = None

\* C9, amended: a response whose status is 4xx or 5xx ends read_geojson
\* with the retrieval error, the body unparsed and nothing returned.
C9_ErrorStatusRaises ==
    (rg_response # None /\ rg_response.status_code \in 400..599) =>
        /\ rg_pc = "raised"
        /\ rg_error = "HTTPError"
        /\ parse_calls = 0
        /\ rg_result = None

C9_Witness ==
    /\ rg_pc = "raised"
    /\ rg_response # None
    /\ rg_response.status_code = 404
    /\ rg_response.text = JsonText(FeatureCollection(<<feature_1>>))
    /\ rg_error = "HTTPError"
    /\ parse_calls = 0

(***************************************************************************)
(* Properties of sort_items                                                *)
(***************************************************************************)

\* the tuple of an item's sort_on values, and the lexicographic order on
\* such tuples, first key most significant
KeyTuple(item) == [k \in 1..Len(si_sort_on) |-> item.properties[si_sort_on[k]]]
TupleBefore(a, b) ==
    \E i \in 1..Len(a) : a[i] < b[i] /\ \A j \in 1..(i - 1) : a[j] = b[j]

\* C10: when every item has all the sort_on properties, the result of
\* sort_items is a permutation of the input, in ascending order of the
\* sort_on tuples (descending when ascending is false), items with equal
\* tuples in their input order in both directions; with no sort keys the
\* result is the input order.
C10_SortedStablePermutation ==
    si_pc = "returned" =>
        LET given == si_items.items
            out == si_result
            n == Len(given)
        IN  /\ Len(out) = n
            /\ {out[i].id : i \in 1..n} = 1..n
            /\ \A i \in 1..n : out[i] = given[out[i].id]
            /\ \A i \in 1..n : \A j \in (i + 1)..n :
                  /\ si_ascending => ~TupleBefore(KeyTuple(out[j]), KeyTuple(out[i]))
                  /\ ~si_ascending => ~TupleBefore(KeyTuple(out[i]), KeyTuple(out[j]))
                  /\ KeyTuple(out[i]) = KeyTuple(out[j]) => out[i].id < out[j].id
            /\ si_sort_on = <<>> => out = given

\* descending on cloud cover 50, 0, 50: the two 50s first, in input order
C10_Witness ==
    /\ si_pc = "returned"
    /\ ~si_ascending
    /\ si_sort_on = <<CLOUD>>
    /\ Len(si_items.items) = 3
    /\ si_items.items[1].properties[CLOUD] = 50
    /\ si_items.items[2].properties[CLOUD] = 0
    /\ si_items.items[3].properties[CLOUD] = 50
    /\ si_result = <<si_items.items[1], si_items.items[3], si_items.items[2]>>

\* C11: when some scene of the input lacks a property named in sort_on,
\* sort_items ends with the missing-property error (KeyError) and returns
\* no ordering, whatever the size of the input and wherever that scene is.
C11_MissingPropertyRaises ==
    (/\ si_pc # "call"
     /\ \E i \in 1..Len(si_items.items) : \E k \in 1..Len(si_sort_on) :
           si_sort_on[k] \notin DOMAIN si_items.items[i].properties)
        => /\ si_pc = "raised"
           /\ si_error = "KeyError"
           /\ si_result = None

\* a single scene, with cloud cover but no no-data percentage
C11_Witness ==
    /\ si_pc = "raised"
    /\ si_error = "KeyError"
    /\ Len(si_items.items) = 1
    /\ si_items.items[1].properties = (CLOUD :> 0)
    /\ si_sort_on = <<CLOUD, NODATA>>

(***************************************************************************)
(* Properties of the map composed by create_stac_tiler_map                 *)
(***************************************************************************)

\* the scene the map is made for, once the scenes are listed
MapItemLacksAsset ==
    map_items # <<>> /\ map_inputs.asset_key \notin DOMAIN map_items[1].assets

\* C12: when the requested asset key is absent from the selected scene's
\* assets, building the tile layer fails with the missing-asset error
\* (KeyError) and the map gets no tile layer; when the key is present the
\* tile layer's URL is exactly tiler_url, "?url=" and the asset's href.
C12_TileLayerOrMissingAsset ==
    /\ (MapItemLacksAsset /\ map_pc # "tile")
          => /\ map_pc = "raised"
             /\ map_error = "KeyError"
             /\ map_m.layers = <<>>
    /\ (map_pc \in {"enrich", "layers", "returned"})
          => /\ map_inputs.asset_key \in DOMAIN map_items[1].assets
             /\ map_m.layers[1].name = "COG"
             /\ map_m.layers[1].tiles =
                   "https://api.cogeo.xyz/cog/tiles/{z}/{x}/{y}" \o "?url=" \o
                   map_items[1].assets[map_inputs.asset_key].href

\* the key "nonexistent" asked of a scene that has a "visual" asset
C12_Witness ==
    /\ map_pc = "raised"
    /\ map_error = "KeyError"
    /\ map_items = <<item_3>>
    /\ map_inputs.asset_key = "nonexistent"
    /\ map_m.layers = <<>>

\* C13: after the map is composed, the property mapping of every feature
\* of the feature collection that was read holds exactly the keys and
\* values it had when it was read.
C13_OriginalFeatureUnchanged ==
    map_pc = "returned"
       => \A i \in 1..Len(map_read.features) :
             map_heap[map_feature_collection.features[i].properties.ref]
                = map_read.features[i].properties

(***************************************************************************)
(* Properties of the HTTP application                                      *)
(***************************************************************************)

\* C14: a GET request to /map is routed to the map handler and answered
\* with status 200 and the rendered HTML document.
C14_GetMapAnswered200 ==
    (/\ api_pc = "answered"
     /\ api_request.method = "GET"
     /\ api_request.path = "/map")
        => /\ api_endpoint \in {"root", "create_custom_map"}
           /\ api_response.status = 200
           /\ api_response.media_type = "text/html"

(***************************************************************************)
(* Properties of the legacy _get_scene                                     *)
(***************************************************************************)

\* the searches of the call that found nothing
EmptySearches ==
    {k \in 1..Len(gs_searches) : gs_searches[k].returned = ItemCollection(<<>>)}

\* C15: after n empty searches of the legacy loop the upper bound of
\* eo:cloud_cover is 10 + 5n, the bounds of s2:nodata_pixel_percentage are
\* still gte 0 and lte 10, and every lower bound is still 0.
C15_OnlyCloudCoverLoosened ==
    gs_pc \in {"while", "returned", "raised"}
       => LET query == Deref(gs_heap, gs_query)
              n == Cardinality(EmptySearches)
          IN  /\ query[CLOUD].lte = 10 + 5 * n
              /\ query[CLOUD].gte = 0
              /\ query[NODATA] = [gte |-> 0, lte |-> 10]

(***************************************************************************)
(* Frame of get_items                                                      *)
(***************************************************************************)

====
